---- MODULE Spec2Model ----
(***************************************************************************)
(* Model of the suno2cd batch conversion pipeline:                         *)
(*   src/src/converter.ts  (engine loader, filename resolver, transcode    *)
(*                          unit; the second, current copy of the file,    *)
(*                          lines 151-396)                                 *)
(*   src/src/main.ts       (batch orchestrator and the UI events that      *)
(*                          reach it)                                      *)
(* A file name is a sequence of one-character strings, so that the string  *)
(* operations of the code (lastIndexOf, slice, replace, template strings)  *)
(* are computed and not assumed.                                           *)
(***************************************************************************)
EXTENDS Integers, Sequences, FiniteSets, TLC

\* ------------------------------------------------------------------ bounds

\* calls of getUniqueFilename between two resets explored by SpecNames
MaxCalls == 4
\* startConversion invocations explored by Spec (one task slot per click)
MaxTasks == 2
\* calls of loadFFmpeg and convertToCDQuality explored by SpecApi
MaxApiCalls == 3
\* files the user may hold in the selection at once
MaxFiles == 2
\* render timers (setTimeout 150 ms of removeFile) pending at once
MaxTimers == 1
\* remove actions the user takes in one run
MaxRemoves == 1
\* convertAll invocations explored by SpecVariant
MaxVariantBatches == 2
\* files in the selection, remove actions and pending render timers explored
\* by SpecList
MaxListFiles == 3
MaxListRemoves == 2
MaxListTimers == 2
\* size in bytes (units) of the two fetched resources
CoreSize == 1
WasmSize == 2

\* ------------------------------------------------------------ string helpers

Str_wav == <<".", "w", "a", "v">>

DigitChar == <<"0", "1", "2", "3", "4", "5", "6", "7", "8", "9">>

\* `${n}` for a non-negative integer n
RECURSIVE ToDecimal(_)
ToDecimal(n) ==
  IF n < 10 THEN <<DigitChar[n + 1]>>
  ELSE ToDecimal(n \div 10) \o <<DigitChar[(n % 10) + 1]>>

\* String.prototype.lastIndexOf(c), 1-based; 0 stands for the code's -1
LastIndexOf(s, c) ==
  IF \E k \in 1..Len(s) : s[k] = c
  THEN CHOOSE k \in 1..Len(s) : s[k] = c /\ \A j \in (k + 1)..Len(s) : s[j] # c
  ELSE 0

\* s.slice(0, k0) and s.slice(k0) for the 0-based index k0 = k - 1
SliceTo(s, k) == SubSeq(s, 1, k - 1)
SliceFrom(s, k) == SubSeq(s, k, Len(s))

\* Map.get(k) ?? 0
MapGet(m, k) == IF k \in DOMAIN m THEN m[k] ELSE 0

\* Map.set(k, v)
MapSet(m, k, v) == [x \in (DOMAIN m) \cup {k} |-> IF x = k THEN v ELSE m[x]]

EmptyMap == [x \in {} |-> 0]

\* ------------------------------------------------------- exact percentages

\* Percentages are exact rationals <<numerator, denominator>>, denominator > 0.
RECURSIVE GCD(_, _)
GCD(a, b) == IF b = 0 THEN a ELSE GCD(b, a % b)

Rat(n, d) == LET g == GCD(n, d) IN <<n \div g, d \div g>>

RatLeq(a, b) == a[1] * b[2] <= b[1] * a[2]

\* Math.round(n / d) for n >= 0, d > 0
Round(n, d) == (2 * n + d) \div (2 * d)

\* -------------------------------------------------------------- file names

Name_a_mp3 == <<"a", ".", "m", "p", "3">>
Name_a_wav == <<"a", ".", "w", "a", "v">>

\* the files the user can pick; identity is (name, size) as in addFiles
Files == { [name |-> Name_a_mp3, size |-> 1],
           [name |-> Name_a_wav, size |-> 1] }

\* the files the user can pick under SpecList
ListFiles == Files \cup { [name |-> Name_a_mp3, size |-> 2] }

\* desired output names handed to getUniqueFilename by SpecNames
DesiredNames == { Name_a_wav,
                  <<"a", " ", "(", "2", ")", ".", "w", "a", "v">>,
                  <<"b", ".", "c", ".", "w", "a", "v">>,
                  <<"b">> }

\* file.name.replace(/\.[^/.]+$/, ''): strip a last extension of one or more
\* characters, none of them '/' or '.'
StripExtension(name) ==
  LET k == LastIndexOf(name, ".") IN
  IF k > 0 /\ k < Len(name) /\ \A j \in (k + 1)..Len(name) : name[j] # "/"
  THEN SliceTo(name, k)
  ELSE name

\* file.name.includes('.') ? file.name.slice(file.name.lastIndexOf('.')) : ''
InputExt(name) ==
  IF LastIndexOf(name, ".") > 0 THEN SliceFrom(name, LastIndexOf(name, ".")) ELSE <<>>

\* a faulty variant of inputName without the counter; C17_VirtualNamesDistinct
\* tells it from the code
InputName_NoCounter(uniqueId, name) ==
  <<"i", "n", "p", "u", "t">> \o InputExt(name)

\* `input_${uniqueId}${inputExt}`
InputName(uniqueId, name) ==
  <<"i", "n", "p", "u", "t", "_">> \o ToDecimal(uniqueId) \o InputExt(name)

\* `output_${uniqueId}.wav`
OutputName(uniqueId) ==
  <<"o", "u", "t", "p", "u", "t", "_">> \o ToDecimal(uniqueId) \o Str_wav

\* `${baseName}.wav`
DesiredDisplayName(name) == StripExtension(name) \o Str_wav

\* ------------------------------------------------------ filename resolver

\* a faulty variant of getUniqueFilename that numbers the N-th occurrence of a
\* name with N - 1; C3_SuffixIsOccurrence tells it from the code
GetUniqueFilename_OffByOne(used, desiredName) ==
  LET count == MapGet(used, desiredName)
      lastDot == LastIndexOf(desiredName, ".")
      base == IF lastDot > 0 THEN SliceTo(desiredName, lastDot) ELSE desiredName
      ext == IF lastDot > 0 THEN SliceFrom(desiredName, lastDot) ELSE <<>>
  IN IF count = 0
     THEN [name |-> desiredName, used |-> MapSet(used, desiredName, 1)]
     ELSE [name |-> base \o <<" ", "(">> \o ToDecimal(count) \o <<")">> \o ext,
           used |-> MapSet(used, desiredName, count + 1)]

\* getUniqueFilename: the name returned and the registry after the call
GetUniqueFilename(used, desiredName) ==
  LET count == MapGet(used, desiredName)
      lastDot == LastIndexOf(desiredName, ".")
      base == IF lastDot > 0 THEN SliceTo(desiredName, lastDot) ELSE desiredName
      ext == IF lastDot > 0 THEN SliceFrom(desiredName, lastDot) ELSE <<>>
  IN IF count = 0
     THEN [name |-> desiredName, used |-> MapSet(used, desiredName, 1)]
     ELSE [name |-> base \o <<" ", "(">> \o ToDecimal(count + 1) \o <<")">> \o ext,
           used |-> MapSet(used, desiredName, count + 1)]

\* ===================================== the variant page (src/unnamed/part_001)

\* The variant page keeps its own module state; `variant` holds it as one
\* record. Disabled buttons are TRUE. pc is the await convertAll is suspended
\* at, load that of loadFfmpeg, zipping whether downloadZip awaits the archive.
\* outcome tells how the last convertAll ended.
VariantInit ==
  [selected |-> <<>>, ffmpegLoaded |-> FALSE, converting |-> FALSE,
   outputs |-> <<>>, results |-> <<>>, liveUrls |-> {}, urls |-> 0,
   loadBtn |-> FALSE, convertBtn |-> TRUE, clearBtn |-> TRUE, downloadZipBtn |-> TRUE,
   loadBar |-> 0, taskBar |-> 0,
   bytes |-> [core |-> <<0, 0>>, wasm |-> <<0, 0>>], load |-> "idle",
   files |-> <<>>, i |-> 0, usedNames |-> EmptyMap, inName |-> <<>>, outName |-> <<>>,
   pc |-> "idle", fs |-> {}, outcome |-> "none", batches |-> 0,
   archive |-> EmptyMap, zipping |-> FALSE]

\* Math.max(0, Math.min(1, ratio)) of the ratio n / d, then
\* Math.round(pct * 100): the width of a progress bar in percent
BarWidth(n, d) ==
  IF n <= 0 THEN 0 ELSE IF n >= d THEN 100 ELSE Round(100 * n, d)

\* setLoadProgress(ratio, label)
SetLoadProgress(v, n, d) == [v EXCEPT !.loadBar = BarWidth(n, d)]

\* setTaskProgress(ratio, label)
SetTaskProgress(v, n, d) == [v EXCEPT !.taskBar = BarWidth(n, d)]

\* syncButtons
SyncButtons(v) ==
  [v EXCEPT !.convertBtn = ~v.ffmpegLoaded \/ Len(v.selected) = 0 \/ v.converting,
            !.clearBtn = (Len(v.selected) = 0 /\ Len(v.outputs) = 0) \/ v.converting,
            !.downloadZipBtn = (Len(v.outputs) = 0) \/ v.converting,
            !.loadBtn = v.ffmpegLoaded \/ v.converting]

\* replaceExtensionWithWav
ReplaceExtensionWithWav(filename) ==
  LET lastDot == LastIndexOf(filename, ".") - 1
  IN IF lastDot <= 0 THEN filename \o Str_wav
     ELSE SliceTo(filename, lastDot + 1) \o Str_wav

\* uniqueName(desired, used): the name returned and the map after the call
UniqueName(desired, used) ==
  LET current == MapGet(used, desired)
      dot == LastIndexOf(desired, ".") - 1
      base == IF dot >= 0 THEN SliceTo(desired, dot + 1) ELSE desired
      ext == IF dot >= 0 THEN SliceFrom(desired, dot + 1) ELSE <<>>
  IN IF current = 0
     THEN [name |-> desired, used |-> MapSet(used, desired, 1)]
     ELSE [name |-> base \o <<" ", "(">> \o ToDecimal(current + 1) \o <<")">> \o ext,
           used |-> MapSet(used, desired, current + 1)]

\* clearOutputs, with revokeAllOutputUrls
ClearOutputs(v) ==
  [v EXCEPT !.liveUrls = @ \ {v.outputs[k].url : k \in 1..Len(v.outputs)},
            !.outputs = <<>>,
            !.results = <<>>,
            !.downloadZipBtn = TRUE]

\* updateCombined of loadFfmpeg
UpdateCombined(v) ==
  LET total == v.bytes.core[2] + v.bytes.wasm[2]
      received == v.bytes.core[1] + v.bytes.wasm[1]
  IN IF total > 0 THEN SetLoadProgress(v, received, total)
     ELSE SetLoadProgress(v, 0, 1)

\* loadFfmpeg to its first await
LoadFfmpeg(v) ==
  IF v.ffmpegLoaded THEN v
  ELSE [SetLoadProgress(v, 0, 1) EXCEPT !.loadBtn = TRUE,
                                        !.bytes = [core |-> <<0, 0>>, wasm |-> <<0, 0>>],
                                        !.load = "fetchCore"]

\* the catch of the load button's click handler
LoadCatch(v) ==
  [SetLoadProgress(v, 0, 1) EXCEPT !.loadBtn = FALSE, !.load = "idle"]

\* loadFfmpeg after await ffmpeg.load(...)
LoadFfmpegDone(v) ==
  SyncButtons([SetLoadProgress(v, 1, 1) EXCEPT !.ffmpegLoaded = TRUE,
                                               !.loadBtn = TRUE,
                                               !.load = "idle"])

\* the finally block of convertAll
ConvertAllFinally(v) ==
  SyncButtons([v EXCEPT !.converting = FALSE, !.pc = "idle"])

\* the catch block of convertAll, then its finally block
ConvertAllCatch(v) ==
  ConvertAllFinally([SetTaskProgress(v, 0, 1) EXCEPT !.outcome = "failed"])

\* the head of the for loop of convertAll: the next file up to its first await,
\* or the statements after the loop
ConvertAllLoop(v) ==
  IF v.i < Len(v.files)
  THEN LET file == v.files[v.i + 1]
           r == UniqueName(ReplaceExtensionWithWav(file.name), v.usedNames)
       IN [SetTaskProgress(v, 0, 1) EXCEPT
             !.inName = <<"i", "n", "p", "u", "t", "_">> \o ToDecimal(v.i) \o InputExt(file.name),
             !.outName = r.name,
             !.usedNames = r.used,
             !.pc = "writeFile"]
  ELSE ConvertAllFinally([SetTaskProgress(v, 1, 1) EXCEPT
                            !.downloadZipBtn = (Len(v.outputs) = 0),
                            !.outcome = "done"])

\* convertAll to its first await
ConvertAll(v) ==
  IF ~v.ffmpegLoaded \/ Len(v.selected) = 0 THEN v
  ELSE LET v1 == [v EXCEPT !.files = v.selected, !.converting = TRUE,
                           !.outcome = "running", !.batches = @ + 1]
           v2 == ClearOutputs(SyncButtons(SetTaskProgress(v1, 0, 1)))
       IN ConvertAllLoop([v2 EXCEPT !.usedNames = EmptyMap, !.i = 0])

\* convertAll after await ffmpeg.readFile(outName): the output is pushed and
\* its card added
ConvertAllRead(v) ==
  LET url == v.urls + 1
      out == [name |-> v.outName, blob |-> v.i, url |-> url]
  IN [v EXCEPT !.urls = url,
               !.liveUrls = @ \cup {url},
               !.outputs = Append(@, out),
               !.results = Append(@, [originalName |-> v.files[v.i + 1].name, out |-> out]),
               !.pc = "deleteIn"]

\* convertAll after the second deleteFile: progress, i++, the loop head
ConvertAllNext(v) ==
  ConvertAllLoop([SetTaskProgress(v, v.i + 1, Len(v.files)) EXCEPT !.i = @ + 1])

\* the clear button
ClearClick(v) ==
  SyncButtons(ClearOutputs([SetTaskProgress(v, 0, 1) EXCEPT !.selected = <<>>]))

\* pond.on('updatefiles') / the change event of the input
UpdateFiles(v, files) == SyncButtons([v EXCEPT !.selected = files])

\* for (const o of outputs) zip.file(o.name, o.blob)
RECURSIVE ZipOutputs(_, _)
ZipOutputs(entries, outs) ==
  IF outs = <<>> THEN entries
  ELSE ZipOutputs(MapSet(entries, Head(outs).name, Head(outs).blob), Tail(outs))

\* downloadZip to its await, with JSZip loaded
DownloadZip(v) ==
  IF Len(v.outputs) = 0 THEN v
  ELSE [SetTaskProgress(v, 0, 1) EXCEPT !.archive = ZipOutputs(EmptyMap, v.outputs),
                                        !.downloadZipBtn = TRUE,
                                        !.zipping = TRUE]

\* downloadZip after await zip.generateAsync(...)
DownloadZipDone(v) ==
  SyncButtons([SetTaskProgress(v, 1, 1) EXCEPT !.downloadZipBtn = (Len(v.outputs) = 0),
                                               !.zipping = FALSE])

\* ------------------------------------------------------------------- state

VARIABLES
  env,              \* runtime facts read by checkBrowserSupport
  ffmpeg,           \* converter.ts: engine reference, 0 for null
  loaded,           \* converter.ts: loaded
  fileCounter,      \* converter.ts: fileCounter
  usedOutputNames,  \* converter.ts: usedOutputNames
  engInit,          \* per engine object: load() calls that resolved
  vfs,              \* per engine object: names in its virtual filesystem
  subs,             \* per engine object: uniqueIds of subscribed progress handlers
  filesToConvert,   \* main.ts: filesToConvert
  ffmpegLoaded,     \* main.ts: ffmpegLoaded
  activeBlobUrls,   \* main.ts: activeBlobUrls
  hidden,           \* main.ts: the 'hidden' class of the five views
  rows,             \* main.ts: the rows of #fileListItems, by data-index
  renderTimers,     \* pending setTimeout(renderFileList, 150)
  errorTimers,      \* invocations whose setTimeout(..., 4000) of the catch block is pending
  liveUrls,         \* object URLs created and not revoked
  nTasks,           \* startConversion invocations so far
  task,             \* per invocation: position and locals
  calls,            \* per uniqueId: the convertToCDQuality call that drew it
  removes,          \* remove actions taken so far
  removeLog,        \* per remove action: the file its row displayed, whether the
                    \* selection held it, the files the action took out
  nameLog,          \* <<desired, returned>> of each getUniqueFilename call since the reset
  zip,              \* the archive 'Download All as ZIP' built last, and the results it was built from
  variant           \* src/unnamed/part_001: the state of the variant page

pageVars == <<env, ffmpeg, loaded, fileCounter, usedOutputNames, engInit, vfs, subs,
          filesToConvert, ffmpegLoaded, activeBlobUrls, hidden, rows, renderTimers,
          errorTimers, liveUrls, nTasks, task, calls, removes, removeLog,
          nameLog, zip>>

vars == <<pageVars, variant>>

\* one slot per invocation, enough for either specification
Tasks == 1..(IF MaxApiCalls > MaxTasks THEN MaxApiCalls ELSE MaxTasks)

\* The locals of a task that has ended (uniqueId, lastProgress, core, wasm) are
\* set back to their idle values: nothing reads them again.

\* An engine object is named by the invocation whose loadFFmpeg call created it.
Engines == Tasks

\* An error: its kind, the file name its message carries (<<>> for none) and the
\* exit status it carries (0 for none).
NoError == [kind |-> "none", file |-> <<>>, status |-> 0]
\* new Error('FFmpeg not loaded. Call loadFFmpeg() first.')
NotLoadedError == [kind |-> "NotLoaded", file |-> <<>>, status |-> 0]
\* new Error(support.message)
CapabilityError == [kind |-> "Capability", file |-> <<>>, status |-> 0]
\* the rejection of a toBlobURL fetch
FetchError == [kind |-> "Fetch", file |-> <<>>, status |-> 0]
\* the TypeError of reading .name of undefined
TypeError == [kind |-> "TypeError", file |-> <<>>, status |-> 0]
\* new Error(`FFmpeg failed for "${file.name}" (exit code: ${exitCode})`)
TranscodeError(fileName, exitCode) ==
  [kind |-> "TranscodeFailed", file |-> fileName, status |-> exitCode]
\* The rejection of an engine operation. The engine is handed the virtual names
\* only, so its error cannot carry the source file's name.
EngineError(op) == [kind |-> op, file |-> <<>>, status |-> 0]

\* the runtimes explored: all capabilities, WebAssembly alone, nothing
Envs == { [wasm |-> TRUE, isolated |-> TRUE, sab |-> TRUE],
          [wasm |-> TRUE, isolated |-> FALSE, sab |-> FALSE],
          [wasm |-> FALSE, isolated |-> FALSE, sab |-> FALSE] }

\* fractions the engine reports in its progress events
ProgressFractions == { <<1, 40>>, <<1, 1>> }

\* exit statuses of exec
ExitCodes == {0, 1}

\* One invocation: of startConversion (kind "batch") or, under SpecApi, of an
\* export of converter.ts called on its own (kind "load" or "convert").
\* pc is the await it is suspended at; i,
\* totalFiles, convertedFiles are its locals; uniqueId, lastProgress those of
\* the convertToCDQuality call in flight; core, wasm the downloadState of its
\* loadFFmpeg call (<<received, total>>); madeEngine whether that call ran
\* new FFmpeg(); engine the engine object its ffmpeg.load() call went to; files0 the selection at the click; pct the last percent handed
\* to updateProgress and mono whether no percent so far was below its predecessor;
\* did what its loadFFmpeg call has done so far: "new" (new FFmpeg()),
\* "onProgress" (called its callback), "fetch" (started a fetch), "load"
\* (called the engine's load); retry whether, since the invocation failed, the
\* page has been in a state where its batch can be started again.
IdleTask ==
  [kind |-> "batch", did |-> {}, retry |-> FALSE, pc |-> "idle", i |-> 0, totalFiles |-> 0, convertedFiles |-> <<>>,
   uniqueId |-> 0, lastProgress |-> 0, err |-> NoError,
   core |-> <<0, 0>>, wasm |-> <<0, 0>>, madeEngine |-> FALSE, engine |-> 0,
   files0 |-> <<>>, pct |-> <<0, 1>>, mono |-> TRUE]

Init ==
  /\ env \in Envs
  /\ ffmpeg = 0
  /\ loaded = FALSE
  /\ fileCounter = 0
  /\ usedOutputNames = EmptyMap
  /\ engInit = [e \in Engines |-> 0]
  /\ vfs = [e \in Engines |-> {}]
  /\ subs = [e \in Engines |-> {}]
  /\ filesToConvert = <<>>
  /\ ffmpegLoaded = FALSE
  /\ activeBlobUrls = <<>>
  /\ hidden = [convertBtnWrapper |-> TRUE, fileList |-> TRUE, dropZone |-> FALSE,
               results |-> TRUE, status |-> TRUE]
  /\ rows = <<>>
  /\ renderTimers = 0
  /\ errorTimers = {}
  /\ liveUrls = {}
  /\ nTasks = 0
  /\ task = [t \in Tasks |-> IdleTask]
  /\ calls = <<>>
  /\ removes = 0
  /\ removeLog = <<>>
  /\ zip = [from |-> <<>>, entries |-> EmptyMap]
  /\ variant = VariantInit
  /\ nameLog = <<>>

\* The state as one record, so that the code's functions are operators on it.
World ==
  [env |-> env, ffmpeg |-> ffmpeg, loaded |-> loaded, fileCounter |-> fileCounter,
   usedOutputNames |-> usedOutputNames, engInit |-> engInit, vfs |-> vfs,
   subs |-> subs, filesToConvert |-> filesToConvert, ffmpegLoaded |-> ffmpegLoaded,
   activeBlobUrls |-> activeBlobUrls, hidden |-> hidden, rows |-> rows,
   renderTimers |-> renderTimers, errorTimers |-> errorTimers, liveUrls |-> liveUrls,
   nTasks |-> nTasks, task |-> task, calls |-> calls, removes |-> removes,
   removeLog |-> removeLog, nameLog |-> nameLog, zip |-> zip]

\* the convert control and the file list are shown and the selection is the
\* one invocation t started with
Retryable(w, t) ==
  /\ ~w.hidden.convertBtnWrapper
  /\ ~w.hidden.fileList
  /\ w.filesToConvert = w.task[t].files0

Apply(w) ==
  /\ env' = w.env
  /\ ffmpeg' = w.ffmpeg
  /\ loaded' = w.loaded
  /\ fileCounter' = w.fileCounter
  /\ usedOutputNames' = w.usedOutputNames
  /\ engInit' = w.engInit
  /\ vfs' = w.vfs
  /\ subs' = w.subs
  /\ filesToConvert' = w.filesToConvert
  /\ ffmpegLoaded' = w.ffmpegLoaded
  /\ activeBlobUrls' = w.activeBlobUrls
  /\ hidden' = w.hidden
  /\ rows' = w.rows
  /\ renderTimers' = w.renderTimers
  /\ errorTimers' = w.errorTimers
  /\ liveUrls' = w.liveUrls
  /\ nTasks' = w.nTasks
  /\ task' = [t \in Tasks |->
                [w.task[t] EXCEPT !.retry = @ \/ (w.task[t].pc = "failed" /\ Retryable(w, t))]]
  /\ calls' = w.calls
  /\ removes' = w.removes
  /\ removeLog' = w.removeLog
  /\ zip' = w.zip
  /\ variant' = variant
  /\ nameLog' = w.nameLog

Range(s) == {s[k] : k \in 1..Len(s)}

\* ------------------------------------------------------ main.ts: helpers

\* updateProgress(percent, ...): the percent is what the model keeps of it
UpdateProgress(w, t, percent) ==
  [w EXCEPT !.task[t].mono = @ /\ RatLeq(w.task[t].pct, percent),
            !.task[t].pct = percent]

\* fileProgress of startConversion:
\*   baseProgress + (pct / 100) * (70 / totalFiles), baseProgress = 30 + (i / totalFiles) * 70
FileProgress(w, t, pct) ==
  LET n == w.task[t].totalFiles
      i == w.task[t].i
  IN UpdateProgress(w, t, Rat(3000 * n + 7000 * i + 70 * pct, 100 * n))

\* the callback startConversion hands loadFFmpeg: updateProgress(progress * 0.3, ...)
LoadProgress(w, t, progress) ==
  UpdateProgress(w, t, Rat(3 * progress[1], 10 * progress[2]))

\* renderFileList
RenderFileList(w) ==
  IF Len(w.filesToConvert) = 0
  THEN [w EXCEPT !.hidden.fileList = TRUE, !.hidden.convertBtnWrapper = TRUE]
  ELSE [w EXCEPT !.hidden.fileList = FALSE, !.hidden.convertBtnWrapper = FALSE,
                 !.rows = w.filesToConvert]

\* a faulty variant of showResults that does not revoke the old object URLs;
\* C16_OldUrlsRevoked tells it from the code
ShowResults_NoRevoke(w, t, convertedFiles) ==
  LET urls == [k \in 1..Len(convertedFiles) |-> <<t, k>>]
  IN [w EXCEPT !.liveUrls = @ \cup Range(urls),
               !.activeBlobUrls = urls,
               !.hidden.results = FALSE]

\* showResults: revoke the old object URLs, show the view, create one URL per
\* result. The URL of result k of invocation t is named <<t, k>>.
ShowResults(w, t, convertedFiles) ==
  LET urls == [k \in 1..Len(convertedFiles) |-> <<t, k>>]
  IN [w EXCEPT !.liveUrls = (@ \ Range(w.activeBlobUrls)) \cup Range(urls),
               !.activeBlobUrls = urls,
               !.hidden.results = FALSE]

\* for (const { file } of fileUrls) zip.file(file.filename, file.blob): the
\* archive maps a name to one content, a later entry of a name replacing the
\* earlier one
RECURSIVE ZipFiles(_, _)
ZipFiles(entries, fileUrls) ==
  IF fileUrls = <<>> THEN entries
  ELSE ZipFiles(MapSet(entries, Head(fileUrls).filename, Head(fileUrls).blob),
                Tail(fileUrls))

\* the click handler of the 'Download All as ZIP' button that showResults made
\* for fileUrls, with JSZip loaded
DownloadAllAsZip(w, fileUrls) ==
  [w EXCEPT !.zip = [from |-> fileUrls, entries |-> ZipFiles(EmptyMap, fileUrls)]]

\* the catch block of startConversion
CatchBlock(w, t, error) ==
  LET w1 == UpdateProgress(w, t, <<0, 1>>)
  IN [w1 EXCEPT !.task[t].pc = "failed",
                !.task[t].err = error,
                !.task[t].uniqueId = 0,
                !.task[t].lastProgress = 0,
                !.task[t].core = <<0, 0>>,
                !.task[t].wasm = <<0, 0>>,
                !.errorTimers = @ \cup {t}]

\* the end of the try block of startConversion, after the loop
Finish(w, t) ==
  LET w1 == [w EXCEPT !.hidden.status = TRUE, !.hidden.dropZone = FALSE]
      w2 == ShowResults(w1, t, w.task[t].convertedFiles)
      w3 == RenderFileList([w2 EXCEPT !.filesToConvert = <<>>])
  IN [w3 EXCEPT !.task[t].pc = "done",
                !.task[t].uniqueId = 0,
                !.task[t].lastProgress = 0]

\* ----------------------------------- converter.ts: an export and its caller

\* An export of converter.ts throws to its caller: to the catch block of
\* startConversion, or to a caller that keeps the error and does nothing else.
Throw(w, t, error) ==
  IF w.task[t].kind = "batch"
  THEN CatchBlock(w, t, error)
  ELSE [w EXCEPT !.task[t].pc = "threw",
                 !.task[t].err = error,
                 !.task[t].uniqueId = 0,
                 !.task[t].lastProgress = 0,
                 !.task[t].core = <<0, 0>>,
                 !.task[t].wasm = <<0, 0>>]

\* onProgress?.(percent, ...) of loadFFmpeg: the callback startConversion hands
\* it, or a callback that keeps the percent as it is
LoaderOnProgress(w, t, progress) ==
  LET w1 == [w EXCEPT !.task[t].did = @ \cup {"onProgress"}]
  IN IF w.task[t].kind = "batch"
     THEN LoadProgress(w1, t, progress)
     ELSE UpdateProgress(w1, t, progress)

\* the onProgress argument of convertToCDQuality called with pct: fileProgress
\* of startConversion, or a callback that keeps the percent as it is
Callback(w, t, pct) ==
  IF w.task[t].kind = "batch"
  THEN FileProgress(w, t, pct)
  ELSE UpdateProgress(w, t, <<pct, 1>>)

\* onProgress?.(pct, ...) in the body of the convertToCDQuality call id, at the
\* call site named site: "loading" (line 317), "converting" (332), "reading"
\* (354), "done" (361); emitted keeps the sites passed
OnProgress(w, t, id, site, pct) ==
  Callback([w EXCEPT !.calls[id].emitted = @ \cup {site}], t, pct)

\* ------------------------------------------------- converter.ts: the unit

\* ffmpeg.on('progress', progressHandler)
On(w, id) == [w EXCEPT !.subs[w.ffmpeg] = @ \cup {id}, !.calls[id].registered = TRUE]

\* ffmpeg.off('progress', progressHandler)
Off(w, id) == [w EXCEPT !.subs[w.ffmpeg] = @ \ {id}]

\* a call leaves: by its return or by a throw
Exit(w, id, outcome, error) ==
  [w EXCEPT !.calls[id].outcome = outcome, !.calls[id].err = error]

\* a throw of convertToCDQuality before its try block
ThrowBeforeTry(w, t, error) ==
  Throw(Exit(w, w.task[t].uniqueId, "threw", error), t, error)

\* a faulty variant of the throw inside the try block that skips the finally
\* clause; C7_HandlerUnsubscribedOnExit tells it from the code
ThrowInTry_NoFinally(w, t, error) ==
  Throw(Exit(w, w.task[t].uniqueId, "threw", error), t, error)

\* a throw inside the try block: the finally clause, then the caller
ThrowInTry(w, t, error) ==
  LET id == w.task[t].uniqueId
  IN Throw(Exit(Off(w, id), id, "threw", error), t, error)

\* the value of filesToConvert[i] when i is not below the array's length
Undefined == [name |-> <<>>, size |-> 0 - 1]

\* array[i], i 0-based
ArrayGet(array, i) == IF i + 1 <= Len(array) THEN array[i + 1] ELSE Undefined

\* convertToCDQuality past its engine-ready check, to its first await
ConvertStart(w, t, file) ==
  LET i == w.task[t].i
      uniqueId == w.fileCounter + 1
  IN IF file = Undefined
     THEN LET call == [t |-> t, index |-> i, fileName |-> <<>>, inputName |-> <<>>,
                       outputName |-> <<>>, displayName |-> <<>>,
                       registered |-> FALSE, outcome |-> "threw", err |-> TypeError,
                       dels |-> <<>>, ops |-> <<>>, emitted |-> {},
                       exitCode |-> 0 - 1]
          IN Throw([w EXCEPT !.fileCounter = uniqueId,
                             !.calls = Append(@, call)], t, TypeError)
     ELSE LET r == GetUniqueFilename(w.usedOutputNames, DesiredDisplayName(file.name))
              call == [t |-> t, index |-> i, fileName |-> file.name,
                       inputName |-> InputName(uniqueId, file.name),
                       outputName |-> OutputName(uniqueId),
                       displayName |-> r.name,
                       registered |-> FALSE, outcome |-> "running", err |-> NoError,
                       dels |-> <<>>, ops |-> <<"writeFile">>, emitted |-> {},
                       exitCode |-> 0 - 1]
              w1 == [w EXCEPT !.fileCounter = uniqueId,
                              !.calls = Append(@, call),
                              !.usedOutputNames = r.used,
                              !.nameLog = Append(@, <<DesiredDisplayName(file.name), r.name>>),
                              !.task[t].uniqueId = uniqueId,
                              !.task[t].pc = "writeFile"]
          IN OnProgress(w1, t, uniqueId, "loading", 10)

\* a faulty variant of convertToCDQuality that draws its uniqueId before the
\* engine-ready check; C18_NotReadyThrows tells it from the code
ConvertToCDQuality_CountsFirst(w, t, file) ==
  IF w.ffmpeg = 0 \/ ~w.loaded
  THEN Throw([w EXCEPT !.fileCounter = @ + 1], t, NotLoadedError)
  ELSE ConvertStart(w, t, file)

\* convertToCDQuality(file, onProgress) to its first await
ConvertToCDQuality(w, t, file) ==
  IF w.ffmpeg = 0 \/ ~w.loaded
  THEN Throw(w, t, NotLoadedError)
  ELSE ConvertStart(w, t, file)

\* the head of the for loop of startConversion
LoopHead(w, t) ==
  IF w.task[t].i < w.task[t].totalFiles
  THEN ConvertToCDQuality(w, t, ArrayGet(w.filesToConvert, w.task[t].i))
  ELSE Finish(w, t)

\* const convertedFiles = []; const totalFiles = filesToConvert.length; i = 0
LoopInit(w, t) ==
  LoopHead([w EXCEPT !.task[t].convertedFiles = <<>>,
                     !.task[t].totalFiles = Len(w.filesToConvert),
                     !.task[t].i = 0], t)

\* after await loadFFmpeg(...): ffmpegLoaded = true, then the loop
AfterLoad(w, t) ==
  LoopInit([w EXCEPT !.ffmpegLoaded = TRUE,
                     !.task[t].core = <<0, 0>>,
                     !.task[t].wasm = <<0, 0>>], t)

\* loadFFmpeg returns to its caller
LoadReturn(w, t) ==
  IF w.task[t].kind = "batch"
  THEN AfterLoad(w, t)
  ELSE [w EXCEPT !.task[t].pc = "returned",
                 !.task[t].core = <<0, 0>>,
                 !.task[t].wasm = <<0, 0>>]

\* convertToCDQuality returns result to its caller: startConversion pushes it
\* and takes the next turn of its loop
ConvertReturn(w, t, result) ==
  IF w.task[t].kind = "batch"
  THEN LoopHead([w EXCEPT !.task[t].convertedFiles = Append(@, result),
                          !.task[t].i = @ + 1], t)
  ELSE [w EXCEPT !.task[t].pc = "returned",
                 !.task[t].convertedFiles = <<result>>,
                 !.task[t].uniqueId = 0,
                 !.task[t].lastProgress = 0]

\* progressHandler of the call that drew uniqueId id
ProgressHandler(w, id, progress) ==
  LET t == w.calls[id].t
      pct == 10 + Round(progress[1] * 80, progress[2])
  IN IF pct > w.task[t].lastProgress
     THEN Callback([w EXCEPT !.task[t].lastProgress = pct], t, pct)
     ELSE w

\* the engine emits one progress event to every subscribed handler
RECURSIVE Emit(_, _, _)
Emit(w, ids, progress) ==
  IF ids = {} THEN w
  ELSE LET id == CHOOSE x \in ids : TRUE
       IN Emit(ProgressHandler(w, id, progress), ids \ {id}, progress)

\* ----------------------------------------------- converter.ts: the loader

\* new Error(...) of an engine initialization that rejects
EngineInitError == [kind |-> "EngineInit", file |-> <<>>, status |-> 0]

\* checkBrowserSupport().supported
CheckBrowserSupport(e) ==
  IF ~e.wasm THEN FALSE
  ELSE IF e.isolated THEN TRUE
  ELSE IF e.sab THEN TRUE
  ELSE FALSE

\* loadFFmpeg past `if (loaded) return`, to its first await; the engine object
\* made by invocation t is named t
LoadStart(w, t) ==
  IF ~CheckBrowserSupport(w.env) THEN Throw(w, t, CapabilityError)
  ELSE LET w1 == [w EXCEPT !.ffmpeg = t,
                           !.task[t].madeEngine = TRUE,
                           !.task[t].did = @ \cup {"new"},
                           !.task[t].core = <<0, 0>>,
                           !.task[t].wasm = <<0, 0>>,
                           !.task[t].pc = "fetchCore"]
           w2 == LoaderOnProgress(w1, t, <<0, 1>>)
       IN [w2 EXCEPT !.task[t].did = @ \cup {"fetch"}]

\* a faulty variant of loadFFmpeg without `if (loaded) return`;
\* C11_LoadIdempotent tells it from the code
LoadFFmpeg_NoGuard(w, t) == LoadStart(w, t)

\* a faulty variant of loadFFmpeg that checks the browser support after it has
\* made the engine and reported 0; C19_NoWasmFailsFirst tells it from the code
LoadFFmpeg_LateCheck(w, t) ==
  IF w.loaded THEN LoadReturn(w, t)
  ELSE LET w1 == LoaderOnProgress([w EXCEPT !.ffmpeg = t,
                                            !.task[t].madeEngine = TRUE,
                                            !.task[t].did = @ \cup {"new"}], t, <<0, 1>>)
       IN IF ~CheckBrowserSupport(w.env) THEN Throw(w1, t, CapabilityError)
          ELSE [w1 EXCEPT !.task[t].did = @ \cup {"fetch"}, !.task[t].pc = "fetchCore"]

\* loadFFmpeg(onProgress) to its first await
LoadFFmpeg(w, t) ==
  IF w.loaded THEN LoadReturn(w, t) ELSE LoadStart(w, t)

\* updateProgress of loadFFmpeg: the combined download percent
LoaderUpdateProgress(w, t) ==
  LET totalBytes == w.task[t].core[2] + w.task[t].wasm[2]
      receivedBytes == w.task[t].core[1] + w.task[t].wasm[1]
  IN IF totalBytes > 0
     THEN LoaderOnProgress(w, t, Rat(receivedBytes * 100, totalBytes))
     ELSE w

\* the progress callback loadFFmpeg hands toBlobURL for ffmpeg-core.js
CoreEvent(w, t, received, total) ==
  LoaderUpdateProgress([w EXCEPT !.task[t].core = <<received, total>>], t)

\* the progress callback loadFFmpeg hands toBlobURL for ffmpeg-core.wasm
WasmEvent(w, t, received, total) ==
  LoaderUpdateProgress([w EXCEPT !.task[t].wasm = <<received, total>>], t)

\* resetFilenameTracking
ResetFilenameTracking(w) == [w EXCEPT !.usedOutputNames = EmptyMap, !.nameLog = <<>>]

\* startConversion to its first await (the guard filesToConvert.length > 0 is
\* the action's)
StartConversion(w) ==
  LET t == w.nTasks + 1
      w1 == [w EXCEPT !.nTasks = t,
                      !.hidden = [convertBtnWrapper |-> TRUE, fileList |-> TRUE,
                                  dropZone |-> TRUE, results |-> TRUE, status |-> FALSE],
                      !.task[t].files0 = w.filesToConvert]
      w2 == ResetFilenameTracking(UpdateProgress(w1, t, <<0, 1>>))
  IN IF w.ffmpegLoaded THEN LoopInit(w2, t) ELSE LoadFFmpeg(w2, t)

\* ------------------------------------------------------------ UI handlers

\* addFiles([file]) for an audio file
AddFiles(w, file) ==
  RenderFileList(IF \E k \in 1..Len(w.filesToConvert) :
                      /\ w.filesToConvert[k].name = file.name
                      /\ w.filesToConvert[k].size = file.size
                 THEN w
                 ELSE [w EXCEPT !.filesToConvert = Append(@, file)])

\* Array.prototype.splice(index, 1), index 0-based
Splice(s, index) ==
  IF index + 1 > Len(s) THEN s
  ELSE SubSeq(s, 1, index) \o SubSeq(s, index + 2, Len(s))

\* removeFile(index, element) from the remove button or the swipe of the row
\* with that data-index
RemoveFile(w, index) ==
  LET gone == IF index + 1 <= Len(w.filesToConvert)
              THEN <<w.filesToConvert[index + 1]>> ELSE <<>>
      w1 == [w EXCEPT !.filesToConvert = Splice(@, index),
                      !.removeLog = Append(@, [row |-> w.rows[index + 1], gone |-> gone,
                                               held |-> w.rows[index + 1] \in Range(w.filesToConvert)])]
  IN IF index + 1 <= Len(w.rows)
     THEN [w1 EXCEPT !.renderTimers = @ + 1]
     ELSE RenderFileList(w1)

\* the 4000 ms callback of the catch block of invocation t
ErrorTimeout(w, t) ==
  [w EXCEPT !.hidden.status = TRUE, !.hidden.dropZone = FALSE,
            !.hidden.convertBtnWrapper = FALSE, !.hidden.fileList = FALSE,
            !.errorTimers = @ \ {t}]

\* --------------------------------------- continuations after each await

\* await toBlobURL(ffmpeg-core.js) resolved: the second fetch starts
CoreFetched(w, t) == [w EXCEPT !.task[t].pc = "fetchWasm"]

\* await toBlobURL(ffmpeg-core.wasm) resolved: onProgress(100, 'Initializing
\* FFmpeg...'), then ffmpeg.load() on the engine the module variable holds
WasmFetched(w, t) ==
  LET w1 == LoaderOnProgress([w EXCEPT !.task[t].engine = w.ffmpeg,
                                       !.task[t].pc = "engineLoad"], t, <<100, 1>>)
  IN [w1 EXCEPT !.task[t].did = @ \cup {"load"}]

\* a faulty variant of the end of loadFFmpeg that does not set loaded;
\* C26_FlagImpliesReady tells it from the code
EngineLoaded_NoFlag(w, t) ==
  LET w1 == [w EXCEPT !.engInit[w.task[t].engine] = @ + 1]
  IN LoadReturn(LoaderOnProgress(w1, t, <<100, 1>>), t)

\* await ffmpeg.load() resolved: loaded = true, onProgress(100, 'FFmpeg ready'),
\* return to startConversion
EngineLoaded(w, t) ==
  LET w1 == [w EXCEPT !.engInit[w.task[t].engine] = @ + 1, !.loaded = TRUE]
  IN LoadReturn(LoaderOnProgress(w1, t, <<100, 1>>), t)

\* await ffmpeg.writeFile(inputName, ...) resolved: up to await ffmpeg.exec
WriteFileResolved(w, t) ==
  LET id == w.task[t].uniqueId
      w1 == [w EXCEPT !.vfs[w.ffmpeg] = @ \cup {w.calls[id].inputName},
                      !.calls[id].ops = Append(@, "exec"),
                      !.task[t].lastProgress = 10,
                      !.task[t].pc = "exec"]
  IN OnProgress(On(w1, id), t, id, "converting", 15)

\* a faulty variant of the continuation after exec that does not look at the
\* exit status; C13_NonZeroExitThrows tells it from the code
ExecResolved_IgnoresExit(w, t, exitCode, written) ==
  LET id == w.task[t].uniqueId
      w1 == [w EXCEPT !.vfs[w.ffmpeg] = @ \cup {w.calls[id].outputName},
                      !.calls[id].exitCode = exitCode,
                      !.task[t].pc = "readFile"]
      w2 == OnProgress(w1, t, id, "reading", 90)
  IN [w2 EXCEPT !.calls[id].ops = Append(@, "readFile")]

\* await ffmpeg.exec resolved with exitCode; written tells whether the engine
\* left an output file
ExecResolved(w, t, exitCode, written) ==
  LET id == w.task[t].uniqueId
      w0 == [w EXCEPT !.calls[id].exitCode = exitCode]
      w1 == IF written
            THEN [w0 EXCEPT !.vfs[w.ffmpeg] = @ \cup {w.calls[id].outputName}]
            ELSE w0
  IN IF exitCode # 0
     THEN ThrowInTry(w1, t, TranscodeError(w.calls[id].fileName, exitCode))
     ELSE LET w2 == OnProgress([w1 EXCEPT !.task[t].pc = "readFile"], t, id, "reading", 90)
          IN [w2 EXCEPT !.calls[id].ops = Append(@, "readFile")]

\* await ffmpeg.readFile resolved: deleteFile(inputName) is issued
ReadFileResolved(w, t) ==
  LET id == w.task[t].uniqueId
  IN [w EXCEPT !.calls[id].dels = Append(@, w.calls[id].inputName),
               !.calls[id].ops = Append(@, "deleteFile"),
               !.task[t].pc = "deleteInput"]

\* await ffmpeg.deleteFile(inputName) resolved: deleteFile(outputName) is issued
DeleteInputResolved(w, t) ==
  LET id == w.task[t].uniqueId
  IN [w EXCEPT !.vfs[w.ffmpeg] = @ \ {w.calls[id].inputName},
               !.calls[id].dels = Append(@, w.calls[id].outputName),
               !.calls[id].ops = Append(@, "deleteFile"),
               !.task[t].pc = "deleteOutput"]

\* await ffmpeg.deleteFile(outputName) resolved: onProgress(100, 'Done'), the
\* finally clause, the return
DeleteOutputResolved(w, t) ==
  LET id == w.task[t].uniqueId
      w1 == [w EXCEPT !.vfs[w.ffmpeg] = @ \ {w.calls[id].outputName}]
      w2 == Exit(Off(OnProgress(w1, t, id, "done", 100), id), id, "returned", NoError)
      result == [filename |-> w.calls[id].displayName,
                 originalName |-> w.calls[id].fileName]
  IN ConvertReturn(w2, t, result)

\* an awaited engine operation rejects
OpRejected(w, t) ==
  IF w.task[t].pc = "writeFile"
  THEN ThrowBeforeTry(w, t, EngineError(w.task[t].pc))
  ELSE ThrowInTry(w, t, EngineError(w.task[t].pc))

EngineOps == {"writeFile", "exec", "readFile", "deleteInput", "deleteOutput"}

\* ----------------------------------------------------------------- actions

\* the user picks or drops one audio file
AddFile ==
  \E file \in Files :
    /\ ~hidden.dropZone
    /\ Len(filesToConvert) < MaxFiles
    /\ Apply(AddFiles(World, file))

\* the 'Convert More Files' button of the results view
ConvertMore ==
  /\ ~hidden.results
  /\ Apply([World EXCEPT !.hidden.results = TRUE])

\* the remove button (or the swipe) of a row of the file list
ClickRemove ==
  \E index \in 0..(Len(rows) - 1) :
    /\ ~hidden.fileList
    /\ renderTimers < MaxTimers
    /\ removes < MaxRemoves
    /\ Apply(RemoveFile([World EXCEPT !.removes = @ + 1], index))

\* setTimeout(() => renderFileList(), 150) fires
RenderTimer ==
  /\ renderTimers > 0
  /\ Apply(RenderFileList([World EXCEPT !.renderTimers = @ - 1]))

\* the setTimeout of the catch block fires
ErrorTimer ==
  \E t \in errorTimers : Apply(ErrorTimeout(World, t))

\* the convert button
ClickConvert ==
  /\ ~hidden.convertBtnWrapper
  /\ Len(filesToConvert) > 0
  /\ nTasks < MaxTasks
  /\ Apply(StartConversion(World))

\* a chunk of ffmpeg-core.js arrives: a progress event with more bytes received
FetchCoreProgress ==
  \E t \in Tasks : \E received \in 1..CoreSize :
    /\ task[t].pc = "fetchCore"
    /\ received > task[t].core[1]
    /\ Apply(CoreEvent(World, t, received, CoreSize))

\* the fetch of ffmpeg-core.js ends: its last progress event (received = total),
\* then the continuation of loadFFmpeg
FetchCoreDone ==
  \E t \in Tasks :
    /\ task[t].pc = "fetchCore"
    /\ Apply(CoreFetched(CoreEvent(World, t, CoreSize, CoreSize), t))

\* a chunk of ffmpeg-core.wasm arrives
FetchWasmProgress ==
  \E t \in Tasks : \E received \in 1..WasmSize :
    /\ task[t].pc = "fetchWasm"
    /\ received > task[t].wasm[1]
    /\ Apply(WasmEvent(World, t, received, WasmSize))

\* the fetch of ffmpeg-core.wasm ends
FetchWasmDone ==
  \E t \in Tasks :
    /\ task[t].pc = "fetchWasm"
    /\ Apply(WasmFetched(WasmEvent(World, t, WasmSize, WasmSize), t))

\* a fetch fails
FetchReject ==
  \E t \in Tasks :
    /\ task[t].pc \in {"fetchCore", "fetchWasm"}
    /\ Apply(Throw(World, t, FetchError))

EngineLoadResolve ==
  \E t \in Tasks :
    /\ task[t].pc = "engineLoad"
    /\ Apply(EngineLoaded(World, t))

EngineLoadReject ==
  \E t \in Tasks :
    /\ task[t].pc = "engineLoad"
    /\ Apply(Throw(World, t, EngineInitError))

\* An engine operation resolves only on an engine whose load() has resolved.
EngineUp == ffmpeg # 0 /\ engInit[ffmpeg] > 0

WriteFileResolve ==
  \E t \in Tasks :
    /\ task[t].pc = "writeFile"
    /\ EngineUp
    /\ Apply(WriteFileResolved(World, t))

\* the engine reports progress while an exec runs on it
EngineProgress ==
  \E t \in Tasks : \E progress \in ProgressFractions :
    /\ task[t].pc = "exec"
    /\ EngineUp
    /\ Apply(Emit(World, subs[ffmpeg], progress))

ExecResolve ==
  \E t \in Tasks : \E exitCode \in ExitCodes : \E written \in BOOLEAN :
    /\ task[t].pc = "exec"
    /\ EngineUp
    /\ exitCode = 0 => written
    /\ Apply(ExecResolved(World, t, exitCode, written))

ReadFileResolve ==
  \E t \in Tasks :
    /\ task[t].pc = "readFile"
    /\ EngineUp
    /\ calls[task[t].uniqueId].outputName \in vfs[ffmpeg]
    /\ Apply(ReadFileResolved(World, t))

DeleteInputResolve ==
  \E t \in Tasks :
    /\ task[t].pc = "deleteInput"
    /\ EngineUp
    /\ Apply(DeleteInputResolved(World, t))

DeleteOutputResolve ==
  \E t \in Tasks :
    /\ task[t].pc = "deleteOutput"
    /\ EngineUp
    /\ Apply(DeleteOutputResolved(World, t))

EngineOpReject ==
  \E t \in Tasks :
    /\ task[t].pc \in EngineOps
    /\ Apply(OpRejected(World, t))

Next ==
  \/ AddFile
  \/ ConvertMore
  \/ ClickRemove
  \/ RenderTimer
  \/ ErrorTimer
  \/ ClickConvert
  \/ FetchCoreProgress
  \/ FetchCoreDone
  \/ FetchWasmProgress
  \/ FetchWasmDone
  \/ FetchReject
  \/ EngineLoadResolve
  \/ EngineLoadReject
  \/ WriteFileResolve
  \/ EngineProgress
  \/ ExecResolve
  \/ ReadFileResolve
  \/ DeleteInputResolve
  \/ DeleteOutputResolve
  \/ EngineOpReject

Spec == Init /\ [][Next]_vars

\* -------------------------------------------- the resolver on its own

NamesInit == Init /\ env.isolated

\* getUniqueFilename(desiredName)
NamesCall ==
  \E desiredName \in DesiredNames :
    /\ Len(nameLog) < MaxCalls
    /\ LET r == GetUniqueFilename(usedOutputNames, desiredName)
       IN Apply([World EXCEPT !.usedOutputNames = r.used,
                              !.nameLog = Append(@, <<desiredName, r.name>>)])

\* resetFilenameTracking()
NamesReset ==
  /\ nameLog # <<>>
  /\ Apply(ResetFilenameTracking(World))

NamesNext == NamesCall \/ NamesReset

SpecNames == NamesInit /\ [][NamesNext]_vars

\* The results of a batch whose calls of getUniqueFilename are those of the
\* log: result k has the name returned by call k and its own content k.
NamedResults ==
  [k \in 1..Len(nameLog) |-> [filename |-> nameLog[k][2], blob |-> k]]

\* showResults(convertedFiles) makes the ZIP button only for more than one
\* result; the button is clicked
ClickDownloadZip ==
  /\ Len(NamedResults) > 1
  /\ Apply(DownloadAllAsZip(World, NamedResults))

ZipNext == NamesCall \/ NamesReset \/ ClickDownloadZip

\* batches of output names, each shown as results and downloaded as one archive
SpecZip == NamesInit /\ [][ZipNext]_vars

\* The timers of the page fire: a pending setTimeout callback is run in the end.
SpecLive == Spec /\ WF_vars(RenderTimer) /\ WF_vars(ErrorTimer)

\* ------------------------------ the exports of converter.ts on their own

\* a caller other than startConversion calls loadFFmpeg(onProgress)
ApiLoad ==
  /\ nTasks < MaxApiCalls
  /\ LET t == nTasks + 1
     IN Apply(LoadFFmpeg([World EXCEPT !.nTasks = t, !.task[t].kind = "load"], t))

\* a caller other than startConversion calls convertToCDQuality(file, onProgress)
ApiConvert ==
  \E file \in Files :
    /\ nTasks < MaxApiCalls
    /\ LET t == nTasks + 1
       IN Apply(ConvertToCDQuality([World EXCEPT !.nTasks = t,
                                                 !.task[t].kind = "convert"], t, file))

ApiNext ==
  \/ ApiLoad
  \/ ApiConvert
  \/ NamesReset
  \/ FetchCoreProgress
  \/ FetchCoreDone
  \/ FetchWasmProgress
  \/ FetchWasmDone
  \/ FetchReject
  \/ EngineLoadResolve
  \/ EngineLoadReject
  \/ WriteFileResolve
  \/ EngineProgress
  \/ ExecResolve
  \/ ReadFileResolve
  \/ DeleteInputResolve
  \/ DeleteOutputResolve
  \/ EngineOpReject

SpecApi == Init /\ [][ApiNext]_vars

\* The file list on its own: files are picked, rows are removed and the delayed
\* re-render of removeFile fires, with room for two removes before a re-render.
ListAddFile ==
  \E file \in ListFiles :
    /\ ~hidden.dropZone
    /\ Len(filesToConvert) < MaxListFiles
    /\ Apply(AddFiles(World, file))

ListClickRemove ==
  \E index \in 0..(Len(rows) - 1) :
    /\ ~hidden.fileList
    /\ renderTimers < MaxListTimers
    /\ removes < MaxListRemoves
    /\ Apply(RemoveFile([World EXCEPT !.removes = @ + 1], index))

ListNext ==
  \/ ListAddFile
  \/ ListClickRemove
  \/ RenderTimer

SpecList == Init /\ [][ListNext]_vars

\* ----------------------------------------- the variant page: its actions

\* the selections the file picker can hold: distinct files in any order
Selections ==
  { <<>> } \cup { <<f>> : f \in Files }
           \cup { <<f, g>> : <<f, g>> \in { p \in Files \X Files : p[1] # p[2] } }

ApplyVariant(v) == variant' = v /\ UNCHANGED pageVars

\* the picker's files change
VariantUpdateFiles ==
  \E files \in Selections :
    /\ files # variant.selected
    /\ ApplyVariant(UpdateFiles(variant, files))

\* the load button; one loadFfmpeg call at a time is explored
VariantLoadClick ==
  /\ ~variant.loadBtn
  /\ variant.load = "idle"
  /\ ApplyVariant(LoadFfmpeg(variant))

\* a progress event of the download in progress
VariantFetchProgress ==
  \/ \E received \in 1..CoreSize :
       /\ variant.load = "fetchCore"
       /\ received > variant.bytes.core[1]
       /\ ApplyVariant(UpdateCombined([variant EXCEPT !.bytes.core = <<received, CoreSize>>]))
  \/ \E received \in 1..WasmSize :
       /\ variant.load = "fetchWasm"
       /\ received > variant.bytes.wasm[1]
       /\ ApplyVariant(UpdateCombined([variant EXCEPT !.bytes.wasm = <<received, WasmSize>>]))

\* a download ends with its last progress event; loadFfmpeg goes on to the next
\* await
VariantFetched ==
  \/ /\ variant.load = "fetchCore"
     /\ ApplyVariant([UpdateCombined([variant EXCEPT !.bytes.core = <<CoreSize, CoreSize>>])
                        EXCEPT !.load = "fetchWasm"])
  \/ /\ variant.load = "fetchWasm"
     /\ ApplyVariant([SetLoadProgress(
                        UpdateCombined([variant EXCEPT !.bytes.wasm = <<WasmSize, WasmSize>>]),
                        1, 1)
                        EXCEPT !.load = "engineLoad"])

\* ffmpeg.load() resolves
VariantEngineLoaded ==
  /\ variant.load = "engineLoad"
  /\ ApplyVariant(LoadFfmpegDone(variant))

\* a download or ffmpeg.load() rejects
VariantLoadReject ==
  /\ variant.load # "idle"
  /\ ApplyVariant(LoadCatch(variant))

\* the convert button
VariantConvertClick ==
  /\ ~variant.convertBtn
  /\ variant.batches < MaxVariantBatches
  /\ ApplyVariant(ConvertAll(variant))

VariantWriteFileResolve ==
  /\ variant.pc = "writeFile"
  /\ ApplyVariant([variant EXCEPT !.fs = @ \cup {variant.inName}, !.pc = "exec"])

\* the module-level progress handler: if (!converting) return; setTaskProgress(progress)
VariantProgress ==
  \E progress \in ProgressFractions :
    /\ variant.pc = "exec"
    /\ ApplyVariant(IF variant.converting
                    THEN SetTaskProgress(variant, progress[1], progress[2])
                    ELSE variant)

\* ffmpeg.exec resolves with an exit status
VariantExecResolve ==
  \E exitCode \in ExitCodes :
    /\ variant.pc = "exec"
    /\ ApplyVariant(IF exitCode # 0
                    THEN ConvertAllCatch(variant)
                    ELSE [variant EXCEPT !.fs = @ \cup {variant.outName},
                                         !.pc = "readFile"])

VariantReadFileResolve ==
  /\ variant.pc = "readFile"
  /\ ApplyVariant(ConvertAllRead(variant))

VariantDeleteInputResolve ==
  /\ variant.pc = "deleteIn"
  /\ ApplyVariant([variant EXCEPT !.fs = @ \ {variant.inName}, !.pc = "deleteOut"])

VariantDeleteOutputResolve ==
  /\ variant.pc = "deleteOut"
  /\ ApplyVariant(ConvertAllNext([variant EXCEPT !.fs = @ \ {variant.outName}]))

\* writeFile, exec, readFile or deleteFile rejects
VariantOpReject ==
  /\ variant.pc \in {"writeFile", "exec", "readFile", "deleteIn", "deleteOut"}
  /\ ApplyVariant(ConvertAllCatch(variant))

\* the clear button
VariantClearClick ==
  /\ ~variant.clearBtn
  /\ ApplyVariant(ClearClick(variant))

\* the Download ZIP button; one archive at a time is explored
VariantZipClick ==
  /\ ~variant.downloadZipBtn
  /\ ~variant.zipping
  /\ ApplyVariant(DownloadZip(variant))

\* zip.generateAsync resolves
VariantZipDone ==
  /\ variant.zipping
  /\ ApplyVariant(DownloadZipDone(variant))

VariantNext ==
  \/ VariantUpdateFiles
  \/ VariantLoadClick
  \/ VariantFetchProgress
  \/ VariantFetched
  \/ VariantEngineLoaded
  \/ VariantLoadReject
  \/ VariantConvertClick
  \/ VariantWriteFileResolve
  \/ VariantProgress
  \/ VariantExecResolve
  \/ VariantReadFileResolve
  \/ VariantDeleteInputResolve
  \/ VariantDeleteOutputResolve
  \/ VariantOpReject
  \/ VariantClearClick
  \/ VariantZipClick
  \/ VariantZipDone

SpecVariant == NamesInit /\ [][VariantNext]_vars

\* ================================================================== claims

\* the calls made so far, by uniqueId
CallIds == 1..Len(calls)

\* a call that got past the engine-ready check and built its virtual names
\* (a call handed an undefined file throws before it builds them)
Named(id) == calls[id].inputName # <<>>

\* ---------------------------------------------------------------------- C1
\* C1: every convertToCDQuality call that got past the engine-ready check and
\* has returned or thrown has left the virtual filesystem without its input
\* and output files, and has issued deleteFile exactly once for the input name
\* and exactly once for the output name.
C1_CleanupOnEveryPath ==
  \A id \in CallIds :
    (Named(id) /\ calls[id].outcome # "running") =>
      /\ \A e \in Engines : calls[id].inputName \notin vfs[e]
      /\ \A e \in Engines : calls[id].outputName \notin vfs[e]
      /\ calls[id].dels = <<calls[id].inputName, calls[id].outputName>>

\* ---------------------------------------------------------------------- C2
\* C2: in every batch that has completed successfully, no percent handed to
\* updateProgress was below the one before it, and the last one is 100.
C2_ProgressMonotoneTo100 ==
  \A t \in Tasks :
    task[t].pc = "done" => (task[t].mono /\ task[t].pct = <<100, 1>>)

\* ---------------------------------------------------------------------- C3
\* the number of the call k of the log among the calls with its desired name
Occurrence(k) ==
  Cardinality({j \in 1..k : nameLog[j][1] = nameLog[k][1]})

\* " (n)"
Suffix(n) == <<" ", "(">> \o ToDecimal(n) \o <<")">>

\* result is name with suffix put before the last '.' of name, or at its end
\* when name has no '.'
IsSuffixed(result, name, suffix) ==
  IF \A p \in 1..Len(name) : name[p] # "."
  THEN result = name \o suffix
  ELSE \E p \in 1..Len(name) :
         /\ name[p] = "."
         /\ \A q \in (p + 1)..Len(name) : name[q] # "."
         /\ result = SubSeq(name, 1, p - 1) \o suffix \o SubSeq(name, p, Len(name))

\* C3 as claimed: since the last reset, the first occurrence of a desired name
\* is returned unchanged and the N-th occurrence (N >= 2) is returned with
\* " (N-1)" before its last '.' (at its end when it has none).
C3_SuffixIsOccurrenceMinusOne ==
  \A k \in 1..Len(nameLog) :
    IF Occurrence(k) = 1
    THEN nameLog[k][2] = nameLog[k][1]
    ELSE IsSuffixed(nameLog[k][2], nameLog[k][1], Suffix(Occurrence(k) - 1))

\* C3 as amended: since the last reset, the first occurrence of a desired name
\* is returned unchanged and the N-th occurrence (N >= 2) is returned with
\* " (N)" before its last '.' (at its end when it has none); so a.wav, a.wav,
\* a.wav resolve to a.wav, a (2).wav, a (3).wav in that order.
C3_SuffixIsOccurrence ==
  /\ \A k \in 1..Len(nameLog) :
       IF Occurrence(k) = 1
       THEN nameLog[k][2] = nameLog[k][1]
       ELSE IsSuffixed(nameLog[k][2], nameLog[k][1], Suffix(Occurrence(k)))
  /\ (Len(nameLog) >= 3 /\ \A k \in 1..3 : nameLog[k][1] = Name_a_wav) =>
       /\ nameLog[1][2] = Name_a_wav
       /\ nameLog[2][2] = <<"a", " ", "(", "2", ")", ".", "w", "a", "v">>
       /\ nameLog[3][2] = <<"a", " ", "(", "3", ")", ".", "w", "a", "v">>

\* a.wav has been asked for three times in a row since the last reset
C3_Witness ==
  /\ Len(nameLog) >= 3
  /\ \A k \in 1..3 : nameLog[k][1] = Name_a_wav

\* ---------------------------------------------------------------------- C4
\* C4: the names getUniqueFilename has returned since the last reset are
\* pairwise distinct.
C4_ReturnedNamesDistinct ==
  \A j, k \in 1..Len(nameLog) : j # k => nameLog[j][2] # nameLog[k][2]

\* ---------------------------------------------------------------------- C5
\* errors of the load phase of startConversion
LoadErrorKinds == {"Capability", "Fetch", "EngineInit"}

\* C5: when the conversion of the file at index k of a batch has failed, the
\* batch has made no convertToCDQuality call (hence no engine operation) for
\* an index above k, and the error shown carries the name of the failing file.
C5_FailFastNamesFile ==
  \A t \in Tasks :
    (task[t].pc = "failed" /\ task[t].err.kind \notin LoadErrorKinds) =>
      \A id \in CallIds :
        calls[id].t = t =>
          /\ calls[id].index <= task[t].i
          /\ (calls[id].index = task[t].i /\ Named(id)) =>
               task[t].err.file = calls[id].fileName

\* ---------------------------------------------------------------------- C6
\* C6: at the moment a batch fails on one of its files, showResults has not
\* been called for it, no object URL of one of its results exists, and the
\* results view is hidden.
C6_FailedBatchExposesNothing ==
  [][\A t \in Tasks :
       (/\ task[t].pc # "failed"
        /\ task'[t].pc = "failed"
        /\ task'[t].err.kind \notin LoadErrorKinds) =>
         /\ hidden'.results
         /\ \A u \in liveUrls' \cup Range(activeBlobUrls') : u[1] # t]_vars

\* ---------------------------------------------------------------------- C7
\* C7: every progress handler subscribed on an engine belongs to a
\* convertToCDQuality call that has neither returned nor thrown; so an engine
\* event never reaches the callback of a call that has ended.
C7_HandlerUnsubscribedOnExit ==
  \A e \in Engines : \A id \in subs[e] :
    id \in CallIds /\ calls[id].outcome = "running"

\* a call that subscribed its handler has thrown, and another has returned
C7_Witness ==
  /\ \E id \in CallIds : calls[id].registered /\ calls[id].outcome = "threw"
  /\ \E id \in CallIds : calls[id].registered /\ calls[id].outcome = "returned"

\* ---------------------------------------------------------------------- C8
\* C8: no convertToCDQuality call has thrown the rejection of one of its
\* deleteFile calls.
C8_DeleteRejectionSwallowed ==
  \A id \in CallIds :
    calls[id].outcome = "threw" => calls[id].err.kind \notin {"deleteInput", "deleteOutput"}

\* ---------------------------------------------------------------------- C9
\* C9: with WebAssembly but neither cross-origin isolation nor
\* SharedArrayBuffer, no loadFFmpeg call fails on the capability check.
C9_BaselineFallback ==
  (env.wasm /\ ~env.isolated /\ ~env.sab) =>
    \A t \in Tasks : task[t].err.kind # "Capability"

\* --------------------------------------------------------------------- C10
RECURSIVE SumOver(_, _)
SumOver(f, S) ==
  IF S = {} THEN 0
  ELSE LET x == CHOOSE y \in S : TRUE IN f[x] + SumOver(f, S \ {x})

\* C10: the loadFFmpeg calls that have not failed have created at most one
\* engine object between them, and at most one engine initialization has
\* completed.
C10_EngineCreatedOnce ==
  /\ Cardinality({t \in Tasks :
                    task[t].madeEngine /\ task[t].err.kind \notin LoadErrorKinds}) <= 1
  /\ SumOver(engInit, Engines) <= 1

\* --------------------------------------------------------------------- C11
\* C11: once loaded is set it stays set and the engine reference stays the
\* same; a loadFFmpeg call made while loaded is set returns at once, having
\* made no engine, started no fetch, called no engine load and called
\* onProgress not once.
C11_LoadIdempotent ==
  [][loaded =>
       /\ loaded'
       /\ ffmpeg # 0
       /\ ffmpeg' = ffmpeg
       /\ \A t \in Tasks :
            (task[t].pc = "idle" /\ task'[t].pc # "idle" /\ task'[t].kind = "load") =>
              /\ task'[t] = [task[t] EXCEPT !.kind = "load", !.pc = "returned"]
              /\ engInit' = engInit]_vars

\* a loadFFmpeg call has returned without having done anything
C11_Witness ==
  \E t \in Tasks :
    task[t].kind = "load" /\ task[t].pc = "returned" /\ task[t].did = {}

\* --------------------------------------------------------------------- C12
\* an invocation suspended at an await of loadFFmpeg or convertToCDQuality
InFlight(t) == task[t].pc \notin {"idle", "done", "failed", "returned", "threw"}

\* C12: at most one startConversion invocation is between its start and its
\* end, so at most one engine load or conversion unit is in flight; and no
\* two convertToCDQuality calls of one batch are running together.
C12_OneUnitInFlight ==
  /\ Cardinality({t \in Tasks : InFlight(t)}) <= 1
  /\ \A id1, id2 \in CallIds :
       (id1 # id2 /\ calls[id1].t = calls[id2].t) =>
         ~(calls[id1].outcome = "running" /\ calls[id2].outcome = "running")

C14_ResultsInInputOrder ==
  \A t \in Tasks :
    task[t].pc = "done" =>
      /\ Len(task[t].convertedFiles) = Len(task[t].files0)
      /\ \A k \in 1..Len(task[t].convertedFiles) :
           task[t].convertedFiles[k].originalName = task[t].files0[k].name

\* --------------------------------------------------------------------- C15
\* the names getUniqueFilename returns for the desired names, in order, when
\* it starts from the registry used
RECURSIVE Resolve(_, _)
Resolve(used, desired) ==
  IF desired = <<>> THEN <<>>
  ELSE LET r == GetUniqueFilename(used, Head(desired))
       IN <<r.name>> \o Resolve(r.used, Tail(desired))

\* C15: the result filenames of a completed batch are those an empty registry
\* gives for the batch's input names, whatever was converted before or
\* meanwhile: a batch with the same input names gets the same filenames.
C15_RegistryResetPerBatch ==
  \A t \in Tasks :
    task[t].pc = "done" =>
      LET results == task[t].convertedFiles
      IN [k \in 1..Len(results) |-> results[k].filename]
           = Resolve(EmptyMap, [k \in 1..Len(results) |->
                                  DesiredDisplayName(results[k].originalName)])

\* --------------------------------------------------------------------- C16
\* C16: the object URLs not revoked are those of activeBlobUrls, they all
\* belong to the results of one batch, the one shown last, and are no more
\* than the results of that batch: showResults has revoked every URL of an
\* earlier batch before it created one for a newer batch.
C16_OldUrlsRevoked ==
  /\ liveUrls = Range(activeBlobUrls)
  /\ \A u, v \in liveUrls : u[1] = v[1]
  /\ \A u \in liveUrls :
       /\ task[u[1]].pc = "done"
       /\ Cardinality(liveUrls) <= Len(task[u[1]].convertedFiles)

\* two batches have shown results, one after the other
C16_Witness ==
  /\ liveUrls # {}
  /\ \E t, u \in Tasks :
       /\ t # u
       /\ task[t].pc = "done" /\ task[t].convertedFiles # <<>>
       /\ task[u].pc = "done" /\ task[u].convertedFiles # <<>>

\* --------------------------------------------------------------------- C17
\* C17: the virtual names of the convertToCDQuality calls made so far are
\* pairwise distinct: no input name is an output name, and two calls share
\* neither their input names nor their output names.
C17_VirtualNamesDistinct ==
  \A id1, id2 \in CallIds :
    (Named(id1) /\ Named(id2)) =>
      /\ calls[id1].inputName # calls[id2].outputName
      /\ id1 # id2 =>
           /\ calls[id1].inputName # calls[id2].inputName
           /\ calls[id1].outputName # calls[id2].outputName

\* two calls for source files of the same name are running together
C17_Witness ==
  \E id1, id2 \in CallIds :
    /\ id1 # id2
    /\ calls[id1].fileName = calls[id2].fileName
    /\ calls[id1].outcome = "running"
    /\ calls[id2].outcome = "running"

\* --------------------------------------------------------------------- C18
\* C18: a convertToCDQuality call made while the engine is not ready (ffmpeg
\* null or loaded false: never loaded, load in progress, load failed) throws
\* 'FFmpeg not loaded' at once; the step changes nothing else: no engine
\* operation is issued (no call is logged, the virtual filesystems and the
\* subscriptions stay), onProgress is not called (the percent the caller has
\* seen stays), fileCounter and usedOutputNames stay.
C18_NotReadyThrows ==
  [][\A t \in Tasks :
       (/\ task[t].pc = "idle"
        /\ task'[t].pc # "idle"
        /\ task'[t].kind = "convert"
        /\ (ffmpeg = 0 \/ ~loaded)) =>
         /\ task'[t] = [task[t] EXCEPT !.kind = "convert", !.pc = "threw",
                                       !.err = NotLoadedError]
         /\ fileCounter' = fileCounter
         /\ usedOutputNames' = usedOutputNames
         /\ nameLog' = nameLog
         /\ calls' = calls
         /\ vfs' = vfs
         /\ subs' = subs]_vars

\* a call has thrown 'FFmpeg not loaded' after one loadFFmpeg call had failed
\* and while another was in progress
C18_Witness ==
  \E t, u, v \in Tasks :
    /\ t < u /\ u < v
    /\ task[t].kind = "load" /\ task[t].pc = "threw"
    /\ task[u].kind = "load" /\ InFlight(u)
    /\ task[v].kind = "convert" /\ task[v].err = NotLoadedError

\* --------------------------------------------------------------------- C19
\* C19: in a runtime without WebAssembly every loadFFmpeg call has failed on
\* the capability check having made no engine, started no fetch and called
\* onProgress not once, and the engine is not ready.
C19_NoWasmFailsFirst ==
  ~env.wasm =>
    /\ ffmpeg = 0
    /\ ~loaded
    /\ ~ffmpegLoaded
    /\ \A t \in Tasks :
         /\ task[t].did = {}
         /\ ~task[t].madeEngine
         /\ task[t].pc \in {"idle", "failed"}
         /\ task[t].pc = "failed" => task[t].err = CapabilityError

\* a loadFFmpeg call has failed in a runtime without WebAssembly
C19_Witness == ~env.wasm /\ \E t \in Tasks : task[t].pc = "failed"

\* --------------------------------------------------------------------- C20
\* C20: after a batch has failed, the page comes to a state in which the
\* convert control and the file list are shown and the selection is the one
\* the failed batch started with.
C20_FailedBatchCanRetry ==
  \A t \in Tasks : [](task[t].pc = "failed" => <>task[t].retry)

\* --------------------------------------------------------------------- C21
\* C21: within one convertToCDQuality call no percent handed to onProgress is
\* below the one handed over before it, and a percent forwarded from an engine
\* progress event lies in 10..90 and is above every percent the call has
\* reported so far.
C21_CallProgressMonotone ==
  /\ [](\A t \in Tasks : task[t].kind = "convert" => task[t].mono)
  /\ [][\A t \in Tasks :
          ( /\ task[t].kind = "convert"
            /\ task[t].pc = "exec" /\ task'[t].pc = "exec"
            /\ task'[t].lastProgress # task[t].lastProgress )
          => /\ task'[t].pct = <<task'[t].lastProgress, 1>>
             /\ task'[t].lastProgress \in 10..90
             /\ ~RatLeq(task'[t].pct, task[t].pct)]_vars

\* --------------------------------------------------------------------- C22
\* C22: during one loadFFmpeg call, with each resource's received byte count
\* growing and at most its total, no percent handed to onProgress is below the
\* one handed over before it, and every percent lies in 0..100.
C22_LoadProgressMonotone ==
  \A t \in Tasks :
    task[t].kind = "load" =>
      /\ task[t].mono
      /\ RatLeq(<<0, 1>>, task[t].pct)
      /\ RatLeq(task[t].pct, <<100, 1>>)

\* --------------------------------------------------------------------- C23
\* C23: every remove action taken on a row of the file list takes out of the
\* selection the file that row displays and no other file, also when an earlier
\* remove's delayed re-render has not run yet (a row whose file an earlier
\* action has taken out already takes out nothing).
C23_RemoveTakesDisplayedFile ==
  \A k \in 1..Len(removeLog) :
    removeLog[k].gone = IF removeLog[k].held THEN <<removeLog[k].row>> ELSE <<>>

\* --------------------------------------------------------------------- C24
\* C24: the archive built from a batch of n > 1 results has exactly n entries,
\* one per result: every result's filename is an entry and holds that result's
\* content.
C24_ZipHasOneEntryPerResult ==
  /\ Cardinality(DOMAIN zip.entries) = Len(zip.from)
  /\ \A k \in 1..Len(zip.from) :
       /\ zip.from[k].filename \in DOMAIN zip.entries
       /\ zip.entries[zip.from[k].filename] = zip.from[k].blob

\* --------------------------------------------------------------------- C25
\* C25: when a convertAll batch of the variant page has failed, nothing of it
\* is exposed: the outputs list is empty, no result card is shown and the
\* Download ZIP button is disabled.
C25_VariantFailureExposesNothing ==
  variant.outcome = "failed" =>
    /\ variant.outputs = <<>>
    /\ variant.results = <<>>
    /\ variant.downloadZipBtn

\* --------------------------------------------------------------------- C26
\* C26: whenever the ffmpegLoaded flag of main.ts is set, converter.ts is
\* ready (loaded is set and the engine reference is not null); a
\* startConversion invocation that is inside a convertToCDQuality call got
\* there with the flag set, and no invocation has failed with the
\* 'FFmpeg not loaded' error.
C26_FlagImpliesReady ==
  /\ ffmpegLoaded => (loaded /\ ffmpeg # 0)
  /\ \A t \in Tasks :
       task[t].kind = "batch" =>
         /\ task[t].err # NotLoadedError
         /\ task[t].uniqueId # 0 => ffmpegLoaded

\* an invocation's engine load has failed and a later invocation has converted
\* its files
C26_Witness ==
  \E t, u \in Tasks :
    /\ t < u
    /\ task[t].pc = "failed" /\ task[t].err.kind \in LoadErrorKinds
    /\ task[u].pc = "done" /\ Len(task[u].convertedFiles) > 0
    /\ ffmpegLoaded

====
